---- MODULE Spec2Model ----
(***************************************************************************)
(* A model of the di-sacala dependency-injection container                 *)
(* (src/src/di-sacala.ts): DiContainer.inject, DiContainer.injectContainer *)
(* and the lazy getters they define on the container object.               *)
(*                                                                         *)
(* A container is a JavaScript object; its own properties are kept in      *)
(* insertion order (the order `for (const key in other)` enumerates).      *)
(* Every property defined by inject carries the closure variable           *)
(* `instance` of that call; every property defined by injectContainer      *)
(* carries the reference `other` of that call.                             *)
(***************************************************************************)
EXTENDS Integers, Sequences, FiniteSets, TLC

(***************************************************************************)
(* Bounds of the model.                                                    *)
(***************************************************************************)
NumContainers == 2
ChainLength == 3
StackLimit == 7
MaxFails == 1
MaxCount == 2
MaxClasses == 2
MaxProps == 3

\* the containers of the main specification, and those of the specification
\* of merge chains; the state holds the larger set
Containers == 1..NumContainers
ChainContainers == 1..ChainLength
AllContainers == Containers \cup ChainContainers

(***************************************************************************)
(* Service names and service classes (the `dependency` constructors that   *)
(* callers hand to inject).  A class is described by the name its          *)
(* prototype's getServiceName() returns, the sibling names its constructor *)
(* reads from the container it receives, whether the constructor guards    *)
(* those reads with a static "already running" flag, and the sibling name  *)
(* its operation reads through the container it kept.                      *)
(***************************************************************************)
Names == {"a", "b"}

Classes == {"Counter", "Delay", "IdGen", "Eager", "Cyc", "Guard"}

\* the members that a container inherits from DiContainer.prototype, and the
\* classes whose services are named like them
PrototypeNames == {"inject", "injectContainer"}

ReservedClasses == {"Shadow", "ShadowMerge"}

\* dependency.prototype.getServiceName()
ServiceName(d) ==
    CASE d = "Counter" -> "a"
      [] d = "Delay"   -> "b"
      [] d = "IdGen"   -> "b"
      [] d = "Eager"   -> "b"
      [] d = "Cyc"     -> "a"
      [] d = "Guard"   -> "a"
      [] d = "Shadow"  -> "inject"
      [] d = "ShadowMerge" -> "injectContainer"

\* the names the constructor reads from the container it receives
CtorReads(d) ==
    CASE d = "Counter" -> << >>
      [] d = "Delay"   -> << >>
      [] d = "IdGen"   -> << >>
      [] d = "Eager"   -> <<"a">>
      [] d = "Cyc"     -> <<"b">>
      [] d = "Guard"   -> <<"a">>
      [] d \in ReservedClasses -> << >>

\* TRUE when the constructor skips its reads while another invocation of the
\* same class is running (a static flag set for the duration of the reads)
GuardsReentry(d) == d = "Guard"

\* the sibling whose next() the service's operation calls through the
\* container it kept ("" when the operation advances the service's own counter)
UseReads(d) == IF d = "IdGen" THEN "a" ELSE ""

\* TRUE when instances of the class have an operation to call
HasOperation(d) == d \in {"Counter", "IdGen"}

\* the value `undefined`: an unread `instance`, the result of reading a
\* property that is not there
Undefined == << >>

NoClass == "none"
NoError == "none"

\* faulty variant: every name yields something
InheritedAlways(n) == <<"method", n>>

\* what container[n] evaluates to when the container has no own property n:
\* the member of the prototype chain, or undefined
Inherited(n) == IF n \in PrototypeNames THEN <<"method", n>> ELSE Undefined

(***************************************************************************)
(* State.                                                                  *)
(*   props[c]  the own properties of container c, in insertion order       *)
(*   last      the outcome of the most recent operation                    *)
(*   failed    the number of reads so far that ended with an error         *)
(* A service instance is identified by the property whose getter           *)
(* constructed it and the number of the invocation: <<c, key, k>> is the   *)
(* object the k-th `new dependency(this)` of property key of c returned.   *)
(***************************************************************************)
VARIABLES props, last, failed

vars == <<props, last, failed>>

\* faulty variant: inject constructs the service at once
OwnPropEager(name, d) ==
    [key |-> name, kind |-> "own", dep |-> d, other |-> 0,
     inst |-> <<0, name, 1>>, n |-> 0, deps |-> << >>,
     runs |-> 1, fails |-> 0, reent |-> FALSE]

\* a property defined by inject (lines 81-88): the getter's closure holds
\* `dependency`, `this` (the container the property sits on) and `instance`.
\* n and deps are the state of the cached instance: its counter and the
\* values its constructor read.  runs, fails and reent are history: how often
\* the getter evaluated `new dependency(this)`, how often that threw, and
\* whether an invocation ever started while another one of the same property
\* was running.
OwnProp(name, d) ==
    [key |-> name, kind |-> "own", dep |-> d, other |-> 0,
     inst |-> Undefined, n |-> 0, deps |-> << >>,
     runs |-> 0, fails |-> 0, reent |-> FALSE]

\* a property defined by injectContainer (lines 113-117): the getter's
\* closure holds `other` and `key`
DelegProp(name, o) ==
    [key |-> name, kind |-> "deleg", dep |-> NoClass, other |-> o,
     inst |-> Undefined, n |-> 0, deps |-> << >>,
     runs |-> 0, fails |-> 0, reent |-> FALSE]

\* position of key k among the properties P (0 when absent)
IndexOf(P, k) ==
    IF \E i \in 1..Len(P) : P[i].key = k
    THEN CHOOSE i \in 1..Len(P) : P[i].key = k
    ELSE 0

\* faulty variant: only the property defined last is looked at
hasLast(P, k) == Len(P) > 0 /\ P[Len(P)].key = k

\* has(obj, key): Object.prototype.hasOwnProperty.call(obj, key)
has(P, k) == IndexOf(P, k) # 0

\* the keys `for (const key in obj)` enumerates, in order
KeysOf(P) == [i \in 1..Len(P) |-> P[i].key]

KeySet(P) == {P[i].key : i \in 1..Len(P)}

\* the property of container c under name n (n is bound in c)
Slot(P, c, n) == P[c][IndexOf(P[c], n)]

\* the property defined by inject that a read of c[n] ends at, following the
\* delegations: <<container, name>>
RECURSIVE Origin(_, _, _)
Origin(P, c, n) ==
    IF Slot(P, c, n).kind = "deleg" THEN Origin(P, Slot(P, c, n).other, n)
    ELSE <<c, n>>

OriginSlot(P, c, n) == Slot(P, Origin(P, c, n)[1], n)

(***************************************************************************)
(* inject (lines 71-91).  P is the map from containers to their            *)
(* properties.                                                             *)
(***************************************************************************)
\* faulty variant: a second registration of a name replaces the first one
InjectOpOverwrite(P, c, d) ==
    LET name == ServiceName(d) IN
    [P |-> [P EXCEPT ![c] = IF has(@, name)
                            THEN [@ EXCEPT ![IndexOf(@, name)] = OwnProp(name, d)]
                            ELSE Append(@, OwnProp(name, d))],
     err |-> NoError, dup |-> << >>]

\* faulty variant: the name is defined a second time next to the first
InjectOpShadow(P, c, d) ==
    [P |-> [P EXCEPT ![c] = Append(@, OwnProp(ServiceName(d), d))],
     err |-> NoError, dup |-> << >>]

\* faulty variant: a name of a container merged earlier counts as bound
InjectOpDeep(P, c, d) ==
    LET name == ServiceName(d) IN
    IF \/ has(P[c], name)
       \/ \E i \in 1..Len(P[c]) :
            P[c][i].kind = "deleg" /\ has(P[P[c][i].other], name)
    THEN [P |-> P, err |-> "DuplicateServiceName", dup |-> <<name>>]
    ELSE [P |-> [P EXCEPT ![c] = Append(@, OwnProp(name, d))],
          err |-> NoError, dup |-> << >>]

InjectOp(P, c, d) ==
    LET name == ServiceName(d) IN
    IF has(P[c], name)
    THEN [P |-> P, err |-> "DuplicateServiceName", dup |-> <<name>>]
    ELSE [P |-> [P EXCEPT ![c] = Append(@, OwnProp(name, d))],
          err |-> NoError, dup |-> << >>]

(***************************************************************************)
(* injectContainer (lines 102-121).                                        *)
(***************************************************************************)
\* faulty variant: no key of `other` is checked
FirstDuplicateNone(ks, Q) == << >>

\* faulty variant: the loop runs to its end and the last colliding key is thrown
LastDuplicate(ks, Q) ==
    LET idx == {i \in 1..Len(ks) : has(Q, ks[i])} IN
    IF idx = {} THEN << >>
    ELSE <<ks[CHOOSE i \in idx : \A j \in idx : j <= i]>>

\* the first loop (lines 103-109): the keys of `other` in enumeration order;
\* the first one that `this` has too is thrown
RECURSIVE FirstDuplicate(_, _)
FirstDuplicate(ks, Q) ==
    IF ks = << >> THEN << >>
    ELSE IF has(Q, Head(ks)) THEN <<Head(ks)>>
    ELSE FirstDuplicate(Tail(ks), Q)

\* the second loop (lines 111-119): one delegating property per key of other
RECURSIVE DefineAll(_, _, _)
DefineAll(Q, ks, o) ==
    IF ks = << >> THEN Q
    ELSE DefineAll(Append(Q, DelegProp(Head(ks), o)), Tail(ks), o)

(***************************************************************************)
(* Reading container[name]: the getters (lines 84-87 and line 116).        *)
(* t is the class whose constructor throws during this read (NoClass: no   *)
(* constructor throws); active is the set of own properties <<c, i>> whose *)
(* constructor is running; fuel is the room left on the call stack.        *)
(***************************************************************************)
RECURSIVE Get(_, _, _, _, _, _)
RECURSIVE New(_, _, _, _, _, _)
RECURSIVE ReadAll(_, _, _, _, _, _, _)

\* faulty variant: the constructed object is returned but not kept
StoreInstanceForget(P, c, i, v, deps) == P

\* `instance = <value>` (line 86), after the constructor returned
StoreInstance(P, c, i, v, deps) ==
    [P EXCEPT ![c][i].inst = v, ![c][i].n = 0, ![c][i].deps = deps]

\* faulty variant: the property is marked as constructed before the constructor ends
OnThrowCache(P, c, i) ==
    [P EXCEPT ![c][i].fails = @ + 1,
              ![c][i].inst = <<c, P[c][i].key, P[c][i].runs>>]

\* `new dependency(this)` threw (line 86): nothing is assigned to `instance`
OnThrow(P, c, i) == [P EXCEPT ![c][i].fails = @ + 1]

\* faulty variant: the getter constructs on every read
CachedNever(p) == FALSE

\* `instance ?? ...` (line 86): the cached instance is returned when there is one
Cached(p) == p.inst # Undefined

\* faulty variant: a name registered after the service is hidden from its
\* constructor
ReadsNowEarlier(P, d, active) ==
    IF GuardsReentry(d) /\ \E s \in active : P[s[1]][s[2]].dep = d
    THEN << >>
    ELSE [k \in 1..Len(CtorReads(d)) |->
            IF \E c \in DOMAIN P : \E i \in 1..Len(P[c]) :
                 P[c][i].dep = d /\ IndexOf(P[c], CtorReads(d)[k]) > i
            THEN ""
            ELSE CtorReads(d)[k]]

\* the sequence of names the constructor of d reads now
ReadsNow(P, d, active) ==
    IF GuardsReentry(d) /\ \E s \in active : P[s[1]][s[2]].dep = d
    THEN << >>
    ELSE CtorReads(d)

Get(P, c, n, t, active, fuel) ==
    LET i == IndexOf(P[c], n) IN
    IF fuel = 0 THEN [P |-> P, val |-> Undefined, err |-> "RangeError"]
    ELSE IF i = 0 THEN [P |-> P, val |-> Inherited(n), err |-> NoError]
    ELSE LET p == P[c][i] IN
         IF p.kind = "deleg" THEN Get(P, p.other, n, t, active, fuel - 1)
         ELSE IF Cached(p) THEN [P |-> P, val |-> p.inst, err |-> NoError]
         ELSE LET r == New(P, c, i, t, active, fuel - 1) IN
              IF r.err # NoError
              THEN [P |-> OnThrow(r.P, c, i), val |-> Undefined, err |-> r.err]
              ELSE [P |-> StoreInstance(r.P, c, i, r.val, r.vals),
                    val |-> r.val, err |-> NoError]

\* faulty variant: a constructor that cannot be entered yields undefined
NewUndefinedOnOverflow(P, c, i, t, active, fuel) ==
    LET d  == P[c][i].dep
        P1 == [P EXCEPT ![c][i].runs = @ + 1,
                        ![c][i].reent = @ \/ (<<c, i>> \in active)]
    IN  IF fuel = 0
        THEN [P |-> P1, val |-> Undefined, vals |-> << >>, err |-> NoError]
        ELSE LET r == ReadAll(P1, c, ReadsNow(P, d, active), << >>, t,
                              active \cup {<<c, i>>}, fuel - 1)
             IN  IF r.err # NoError
                 THEN [P |-> r.P, val |-> Undefined, vals |-> r.vals, err |-> r.err]
                 ELSE IF d = t
                 THEN [P |-> r.P, val |-> Undefined, vals |-> r.vals,
                       err |-> "CtorError"]
                 ELSE [P |-> r.P, val |-> <<c, P[c][i].key, P1[c][i].runs>>,
                       vals |-> r.vals, err |-> NoError]

\* `new dependency(this)` evaluated by the getter of property i of c
New(P, c, i, t, active, fuel) ==
    LET d  == P[c][i].dep
        P1 == [P EXCEPT ![c][i].runs = @ + 1,
                        ![c][i].reent = @ \/ (<<c, i>> \in active)]
    IN  IF fuel = 0
        THEN [P |-> P1, val |-> Undefined, vals |-> << >>, err |-> "RangeError"]
        ELSE LET r == ReadAll(P1, c, ReadsNow(P, d, active), << >>, t,
                              active \cup {<<c, i>>}, fuel - 1)
             IN  IF r.err # NoError
                 THEN [P |-> r.P, val |-> Undefined, vals |-> r.vals, err |-> r.err]
                 ELSE IF d = t
                 THEN [P |-> r.P, val |-> Undefined, vals |-> r.vals,
                       err |-> "CtorError"]
                 ELSE [P |-> r.P, val |-> <<c, P[c][i].key, P1[c][i].runs>>,
                       vals |-> r.vals, err |-> NoError]

\* the constructor's reads of this.<name>, in order; the first error ends them
ReadAll(P, c, ns, vals, t, active, fuel) ==
    IF ns = << >> THEN [P |-> P, vals |-> vals, err |-> NoError]
    ELSE LET r == Get(P, c, Head(ns), t, active, fuel) IN
         IF r.err # NoError THEN [P |-> r.P, vals |-> vals, err |-> r.err]
         ELSE ReadAll(r.P, c, Tail(ns), Append(vals, r.val), t, active, fuel)

\* a read issued by the caller of the container
ReadOp(P, c, n, t) == Get(P, c, n, t, {}, StackLimit)

\* faulty variant: the merge reads every property of `other` while it copies
InjectContainerEager(P, c, o) ==
    LET ks  == KeysOf(P[o])
        dup == FirstDuplicate(ks, P[c])
    IN  IF dup # << >>
        THEN [P |-> P, err |-> "DuplicateKeys", dup |-> dup]
        ELSE [P |-> ReadAll([P EXCEPT ![c] = DefineAll(@, ks, o)], o, ks, << >>,
                            NoClass, {}, StackLimit).P,
              err |-> NoError, dup |-> << >>]

\* faulty variant: the merge copies the constructors, each copy with a cache of its own
InjectContainerCopy(P, c, o) ==
    LET ks  == KeysOf(P[o])
        dup == FirstDuplicate(ks, P[c])
    IN  IF dup # << >>
        THEN [P |-> P, err |-> "DuplicateKeys", dup |-> dup]
        ELSE [P |-> [P EXCEPT ![c] = @ \o [i \in 1..Len(ks) |->
                                            OwnProp(ks[i], OriginSlot(P, o, ks[i]).dep)]],
              err |-> NoError, dup |-> << >>]

\* injectContainer (lines 102-121): the check of all keys, then the copy
InjectContainerOp(P, c, o) ==
    LET ks  == KeysOf(P[o])
        dup == FirstDuplicate(ks, P[c])
    IN  IF dup # << >>
        THEN [P |-> P, err |-> "DuplicateKeys", dup |-> dup]
        ELSE [P |-> [P EXCEPT ![c] = DefineAll(@, ks, o)],
              err |-> NoError, dup |-> << >>]

(***************************************************************************)
(* Using a service: container[name].<operation>().  The operation of a     *)
(* class with UseReads(d) = "" advances the instance's own counter         *)
(* (next()); otherwise it calls next() of the sibling read through this.di *)
(* (generate()).  Calling a method of undefined is a TypeError.            *)
(***************************************************************************)
\* the property that holds instance id, when it is still the cached one
HolderOf(P, id) == IndexOf(P[id[1]], id[2])

ClassOf(P, id) == P[id[1]][HolderOf(P, id)].dep

Failed(P, e) == [P |-> P, val |-> 0, err |-> e, via |-> Undefined]

NextOf(P, id) ==
    LET c == id[1]
        i == HolderOf(P, id)
    IN  [P |-> [P EXCEPT ![c][i].n = @ + 1], val |-> P[c][i].n + 1,
         err |-> NoError, via |-> id]

\* the sibling's next(), called by the operation
AfterSibling(q) ==
    IF q.err # NoError THEN Failed(q.P, q.err)
    ELSE IF q.val = Undefined THEN Failed(q.P, "TypeError")
    ELSE IF ~HasOperation(ClassOf(q.P, q.val)) THEN Failed(q.P, "TypeError")
    ELSE NextOf(q.P, q.val)

\* the operation of the instance id
Operation(P, id, d) ==
    IF ~HasOperation(d) THEN Failed(P, "TypeError")
    ELSE IF UseReads(d) = "" THEN NextOf(P, id)
    ELSE AfterSibling(ReadOp(P, id[1], UseReads(d), NoClass))

AfterRead(r) ==
    IF r.err # NoError THEN Failed(r.P, r.err)
    ELSE IF r.val = Undefined THEN Failed(r.P, "TypeError")
    ELSE Operation(r.P, r.val, ClassOf(r.P, r.val))

UseOp(P, c, n) == AfterRead(ReadOp(P, c, n, NoClass))

(***************************************************************************)
(* Calling an operation of the container: container.inject(dependency)     *)
(* and container.injectContainer(other) first evaluate the property of     *)
(* that name on the container (m) and then call what it yielded; the       *)
(* method body (r) runs when that is the inherited method, and the call is *)
(* a TypeError when it is anything else.                                   *)
(***************************************************************************)
Invoke(m, r, name) ==
    IF m.err # NoError THEN [P |-> m.P, err |-> m.err, dup |-> << >>]
    ELSE IF m.val # Inherited(name)
    THEN [P |-> m.P, err |-> "TypeError", dup |-> << >>]
    ELSE r

CallInject(P, c, d) ==
    Invoke(ReadOp(P, c, "inject", NoClass), InjectOp(P, c, d), "inject")

CallInjectContainer(P, c, o) ==
    Invoke(ReadOp(P, c, "injectContainer", NoClass), InjectContainerOp(P, c, o),
           "injectContainer")

(***************************************************************************)
(* The state machine.                                                      *)
(***************************************************************************)
Outcome(op, c, key, o, err, dup, val, ret, via) ==
    [op |-> op, c |-> c, key |-> key, other |-> o,
     err |-> err, dup |-> dup, val |-> val, ret |-> ret, via |-> via]

\* new DiContainer() (line 60): no own property
Init ==
    /\ props = [c \in AllContainers |-> << >>]
    /\ failed = 0
    /\ last = Outcome("new", 0, "", 0, NoError, << >>, Undefined, 0, Undefined)

\* the properties of containers 1..k, one after the other
RECURSIVE AllProps(_, _)
AllProps(P, k) == IF k = 0 THEN << >> ELSE AllProps(P, k - 1) \o P[k]

RECURSIVE TotalCount(_)
TotalCount(Q) == IF Q = << >> THEN 0 ELSE Head(Q).n + TotalCount(Tail(Q))

\* an error thrown while a constructor ran
Thrown(err) == err \in {"CtorError", "RangeError"}

\* the run stays within the bounds: reads that ended with an error, and
\* calls of next() over all containers
WithinBounds(P, err) ==
    /\ Thrown(err) => failed < MaxFails
    /\ TotalCount(AllProps(P, Cardinality(AllContainers))) <= MaxCount

Failures(err) == IF Thrown(err) THEN failed + 1 ELSE failed

\* Containers are interchangeable, so only the runs in which they receive
\* their first property in the order 1, 2, ... are explored: every other run
\* is one of these with the containers renamed.
InOrder(P, c) == P[c] # << >> \/ \A k \in 1..(c - 1) : P[k] # << >>

\* the classes registered so far, on any container
Registered(P) ==
    UNION {{P[c][i].dep : i \in 1..Len(P[c])} : c \in AllContainers} \ {NoClass}

Inject(c, d) ==
    LET r == CallInject(props, c, d) IN
    /\ Cardinality(Registered(props) \cup {d}) <= MaxClasses
    /\ Len(AllProps(r.P, Cardinality(AllContainers))) <= MaxProps
    /\ InOrder(props, c)
    /\ props' = r.P
    /\ failed' = failed
    /\ last' = Outcome("inject", c, ServiceName(d), 0, r.err, r.dup,
                       Undefined, 0, Undefined)

InjectContainer(c, o) ==
    LET r == CallInjectContainer(props, c, o) IN
    /\ Len(AllProps(r.P, Cardinality(AllContainers))) <= MaxProps
    /\ InOrder(props, c)
    /\ props' = r.P
    /\ failed' = failed
    /\ last' = Outcome("injectContainer", c, "", o, r.err, r.dup,
                       Undefined, 0, Undefined)

\* t = NoClass, or the constructor of t ran during the read and threw (a
\* choice of t whose constructor does not run is the read with t = NoClass)
Read(c, n, t) ==
    LET r == ReadOp(props, c, n, t) IN
    /\ t = NoClass \/ r.err = "CtorError"
    /\ WithinBounds(r.P, r.err)
    /\ props' = r.P
    /\ failed' = Failures(r.err)
    /\ last' = Outcome("read", c, n, 0, r.err, << >>, r.val, 0, Undefined)

\* the caller calls operations of services that are there (a call that ends
\* in a TypeError never reaches the container's code)
Use(c, n) ==
    LET r == UseOp(props, c, n) IN
    /\ r.err # "TypeError"
    /\ WithinBounds(r.P, r.err)
    /\ props' = r.P
    /\ failed' = Failures(r.err)
    /\ last' = Outcome("use", c, n, 0, r.err, << >>, Undefined, r.val, r.via)

Next ==
    \/ \E c \in Containers, d \in Classes : Inject(c, d)
    \/ \E c \in Containers, o \in Containers : InjectContainer(c, o)
    \/ \E c \in Containers, n \in Names, t \in Registered(props) \cup {NoClass} :
          Read(c, n, t)
    \/ \E c \in Containers, n \in Names : Use(c, n)

\* the same registrations, merges and reads over the containers of a chain
NextChain ==
    \/ \E c \in ChainContainers, d \in Classes : Inject(c, d)
    \/ \E c \in ChainContainers, o \in ChainContainers : InjectContainer(c, o)
    \/ \E c \in ChainContainers, n \in Names,
          t \in Registered(props) \cup {NoClass} : Read(c, n, t)

\* registrations under the names of the container's own operations, and
\* reads of those names
NextNames ==
    \/ \E c \in Containers, d \in Classes \cup ReservedClasses : Inject(c, d)
    \/ \E c \in Containers, o \in Containers : InjectContainer(c, o)
    \/ \E c \in Containers, n \in Names \cup PrototypeNames,
          t \in Registered(props) \cup {NoClass} : Read(c, n, t)

Spec == Init /\ [][Next]_vars

SpecChain == Init /\ [][NextChain]_vars

SpecNames == Init /\ [][NextNames]_vars

(***************************************************************************)
(* Helpers of the properties.                                              *)
(***************************************************************************)
\* the properties that container c had before the step are unchanged by it
KeepsProps(c) == SubSeq(props'[c], 1, Len(props[c])) = props[c]

(***************************************************************************)
(* C1.  Calling inject with a service whose name N is already bound in the *)
(* container (by inject or by injectContainer) raises "Duplicate service   *)
(* name" and leaves every container as it was: the bound names, the        *)
(* binding of N and the resolved/unresolved state of every property; a     *)
(* read of N that returns afterwards yields an instance built by the       *)
(* property N was bound to first.                                          *)
(***************************************************************************)
C1_DuplicateInjectRejected ==
    [][ (last'.op = "inject" /\ has(props[last'.c], last'.key)) =>
          /\ last'.err = "DuplicateServiceName"
          /\ last'.dup = <<last'.key>>
          /\ props' = props
          /\ LET r == ReadOp(props', last'.c, last'.key, NoClass)
                 o == Origin(props, last'.c, last'.key)
             IN  r.err = NoError =>
                   /\ r.val # Undefined
                   /\ <<r.val[1], r.val[2]>> = o
                   /\ Slot(r.P, o[1], o[2]).dep = Slot(props, o[1], o[2]).dep
      ]_vars

\* a duplicate inject was rejected on a container that got the name by
\* injectContainer, with the service behind it already constructed
C1_Witness ==
    /\ last.op = "inject"
    /\ last.err = "DuplicateServiceName"
    /\ Slot(props, last.c, last.key).kind = "deleg"
    /\ Cached(OriginSlot(props, last.c, last.key))

(***************************************************************************)
(* C2.  Memoization, as the code provides it: once a read of a name has    *)
(* returned an instance, every later read of the name (on any container    *)
(* that exposes it, whatever happens in between) returns that identical    *)
(* instance and the constructor is not invoked again; the constructor has  *)
(* then been invoked exactly once, provided no invocation of it threw and  *)
(* the constructor did not read its own name while it ran.                 *)
(***************************************************************************)
C2_Memoization ==
    [][ /\ \A c \in AllContainers : \A i \in 1..Len(props[c]) :
             Cached(props[c][i]) =>
               /\ props'[c][i].inst = props[c][i].inst
               /\ props'[c][i].runs = props[c][i].runs
        /\ (/\ last'.op = "read"
            /\ last'.err = NoError
            /\ has(props[last'.c], last'.key)) =>
             LET s == OriginSlot(props', last'.c, last'.key) IN
             /\ last'.val # Undefined
             /\ last'.val = s.inst
             /\ (s.fails = 0 /\ ~s.reent) => s.runs = 1
      ]_vars

\* a read returned the instance that an earlier use had read and advanced
C2_Witness ==
    /\ last.op = "read"
    /\ last.err = NoError
    /\ has(props[last.c], last.key)
    /\ OriginSlot(props, last.c, last.key).n >= 1
    /\ OriginSlot(props, last.c, last.key).runs = 1
    /\ last.val = OriginSlot(props, last.c, last.key).inst

\* C2 as it is worded: at the second and every later read of a name the
\* constructor has been invoked exactly once and the read returns the instance
C2_ExactlyOnce ==
    [][ (/\ last'.op = "read"
         /\ has(props[last'.c], last'.key)
         /\ OriginSlot(props, last'.c, last'.key).runs >= 1) =>
          /\ OriginSlot(props', last'.c, last'.key).runs = 1
          /\ last'.val # Undefined
          /\ last'.val = OriginSlot(props', last'.c, last'.key).inst
      ]_vars

C4_MergeStep ==
    (/\ last'.op = "injectContainer"
     /\ KeySet(props[last'.c]) \cap KeySet(props[last'.other]) = {}) =>
       /\ last'.err = NoError
       /\ KeySet(props'[last'.c]) =
            KeySet(props[last'.c]) \cup KeySet(props[last'.other])
       /\ \A n \in KeySet(props[last'.other]) :
            Origin(props', last'.c, n) = Origin(props, last'.other, n)

\* two containers that expose the same service: a read on the one followed
\* by a read on the other returns the same instance twice
C4_SameInstance ==
    \A c \in AllContainers, k \in AllContainers, n \in Names :
      (/\ has(props[c], n) /\ has(props[k], n)
       /\ Origin(props, c, n) = Origin(props, k, n)) =>
         LET r1 == ReadOp(props, c, n, NoClass)
             r2 == ReadOp(r1.P, k, n, NoClass)
         IN  r1.err = NoError =>
               /\ r1.val # Undefined
               /\ r2.err = NoError
               /\ r2.val = r1.val
               /\ r2.P = r1.P

\* the number of invocations of the constructor behind a merged name
C4_Invocations(strict) ==
    \A c \in AllContainers, n \in Names :
      (has(props[c], n) /\ Slot(props, c, n).kind = "deleg") =>
         LET s == OriginSlot(props, c, n) IN
         (strict \/ (s.fails = 0 /\ ~s.reent)) => s.runs <= 1

C4_MergeSharesInstances ==
    /\ [][C4_MergeStep]_vars
    /\ []C4_SameInstance
    /\ []C4_Invocations(FALSE)

\* a read on the last container of a chain X -> Y -> Z returned the instance
\* that X holds
C4_Witness ==
    /\ last.op = "read"
    /\ last.err = NoError
    /\ has(props[last.c], last.key)
    /\ LET p == Slot(props, last.c, last.key) IN
       /\ p.kind = "deleg"
       /\ Slot(props, p.other, last.key).kind = "deleg"
       /\ Slot(props, Slot(props, p.other, last.key).other, last.key).kind = "own"
    /\ last.val # Undefined
    /\ last.val = OriginSlot(props, last.c, last.key).inst

\* C4 as it is worded: the constructor is invoked at most once in total
C4_AtMostOnceInTotal ==
    /\ [][C4_MergeStep]_vars
    /\ []C4_SameInstance
    /\ []C4_Invocations(TRUE)

(***************************************************************************)
(* C5.  All-or-nothing merge: when the two containers share a bound name,  *)
(* injectContainer raises an error and changes neither container (no name  *)
(* of the source is bound in the target, no property changes its state),   *)
(* wherever the colliding name stands among the source's names, and also   *)
(* when a non-empty container is merged into itself.                       *)
(***************************************************************************)
C5_AllOrNothingMerge ==
    [][ (/\ last'.op = "injectContainer"
         /\ KeySet(props[last'.c]) \cap KeySet(props[last'.other]) # {}) =>
          /\ last'.err = "DuplicateKeys"
          /\ props' = props
      ]_vars

\* a merge failed on the second name of the source, the first one being free
\* in the target
C5_Witness ==
    /\ last.op = "injectContainer"
    /\ last.err = "DuplicateKeys"
    /\ last.c # last.other
    /\ Len(props[last.other]) = 2
    /\ ~has(props[last.c], props[last.other][1].key)
    /\ has(props[last.c], props[last.other][2].key)

C7_FactoryFailure ==
    [][ /\ (/\ last'.op = "read"
            /\ \E k \in AllContainers : \E i \in 1..Len(props[k]) :
                 props'[k][i].fails > props[k][i].fails) =>
              /\ last'.err # NoError
              /\ last'.val = Undefined
        /\ (last'.op = "read" /\ last'.err = "CtorError") =>
             LET c  == last'.c
                 n  == last'.key
                 o  == Origin(props, c, n)
                 s  == Slot(props, o[1], n)
                 s1 == Slot(props', o[1], n)
                 r  == ReadOp(props', c, n, NoClass)
                 s2 == Slot(r.P, o[1], n)
             IN  /\ last'.val = Undefined
                 /\ s1.runs > s.runs
                 /\ ~Cached(s1)
                 /\ \A k \in AllContainers : \A i \in 1..Len(props[k]) :
                      props'[k][i].fails > props[k][i].fails =>
                        ~Cached(props'[k][i])
                 /\ s2.runs > s1.runs
                 /\ r.err = NoError =>
                      /\ r.val # Undefined
                      /\ Cached(s2)
                      /\ s2.inst = r.val
                      /\ ReadOp(r.P, c, n, NoClass) =
                           [P |-> r.P, val |-> r.val, err |-> NoError]
      ]_vars

\* a read through a delegating property returned the instance of a
\* constructor that had thrown at an earlier read
C7_Witness ==
    /\ last.op = "read"
    /\ last.err = NoError
    /\ has(props[last.c], last.key)
    /\ Slot(props, last.c, last.key).kind = "deleg"
    /\ OriginSlot(props, last.c, last.key).fails = 1
    /\ OriginSlot(props, last.c, last.key).runs = 2
    /\ last.val = OriginSlot(props, last.c, last.key).inst
    /\ last.val # Undefined

(***************************************************************************)
(* C8.  Merging stays lazy: a successful injectContainer(X) on Y invokes   *)
(* no constructor and leaves every property of X (and of every other       *)
(* container) as it was; the properties it adds to Y are delegations       *)
(* without an instance of their own; a merged service that is unresolved   *)
(* is constructed by the first read of its name, on Y or on X.             *)
(***************************************************************************)
C8_MergeStaysLazy ==
    [][ (last'.op = "injectContainer" /\ last'.err = NoError) =>
          LET c == last'.c
              o == last'.other
          IN  /\ \A k \in AllContainers \ {c} : props'[k] = props[k]
              /\ KeepsProps(c)
              /\ Len(props'[c]) = Len(props[c]) + Len(props[o])
              /\ \A i \in (Len(props[c]) + 1)..Len(props'[c]) :
                   LET p == props'[c][i]
                       s == OriginSlot(props', c, p.key)
                   IN  /\ p.kind = "deleg" /\ p.other = o
                       /\ p.runs = 0 /\ ~Cached(p)
                       /\ s = OriginSlot(props, o, p.key)
                       /\ ~Cached(s) =>
                            \A k \in {c, o} :
                              OriginSlot(ReadOp(props', k, p.key, NoClass).P,
                                         k, p.key).runs > s.runs
      ]_vars

\* a container holding an unconstructed service was merged into another one
C8_Witness ==
    /\ last.op = "injectContainer"
    /\ last.err = NoError
    /\ last.c # last.other
    /\ \E i \in 1..Len(props[last.c]) :
         /\ props[last.c][i].kind = "deleg"
         /\ props[last.c][i].other = last.other
         /\ OriginSlot(props, last.c, props[last.c][i].key).runs = 0

(***************************************************************************)
(* C9.  Dependencies between services: when D is registered after S on     *)
(* the same container and D reads S through the container it was           *)
(* constructed with (in its constructor, or in its operation), D obtains   *)
(* the instance that a direct read of S returns, whether S was resolved    *)
(* before or not; the counter kept in S advances by one with every use     *)
(* through D; S is constructed at most once, provided the constructor of S *)
(* does not read the name of S while it runs.                              *)
(***************************************************************************)
\* the number of constructors of property s that ran to their end
C9_Constructed(s) == s.runs - s.fails

\* D read S in its constructor
C9_CtorRead(strict) ==
    \A c \in AllContainers : \A i \in 1..Len(props[c]) :
      LET p == props[c][i] IN
      (/\ p.kind = "own" /\ Cached(p)
       /\ CtorReads(p.dep) # << >>
       /\ IndexOf(props[c], CtorReads(p.dep)[1]) \in 1..(i - 1)) =>
         LET m == CtorReads(p.dep)[1]
             r == ReadOp(props, c, m, NoClass)
             s == OriginSlot(props, c, m)
         IN  /\ p.deps[1] # Undefined
             /\ r.err = NoError
             /\ r.val = p.deps[1]
             /\ r.P = props
             /\ (strict \/ ~s.reent) => C9_Constructed(s) <= 1

\* D reads S in its operation
C9_UseStep ==
    (/\ last'.op = "use"
     /\ last'.err = NoError
     /\ UseReads(OriginSlot(props, last'.c, last'.key).dep) # ""
     /\ LET h == Origin(props, last'.c, last'.key)[1]
            m == UseReads(OriginSlot(props, last'.c, last'.key).dep)
        IN  IndexOf(props[h], m) \in 1..(IndexOf(props[h], last'.key) - 1)) =>
       LET h  == Origin(props, last'.c, last'.key)[1]
           m  == UseReads(OriginSlot(props, last'.c, last'.key).dep)
           s  == OriginSlot(props, h, m)
           s1 == OriginSlot(props', h, m)
           r  == ReadOp(props', h, m, NoClass)
       IN  /\ last'.via # Undefined
           /\ last'.via = s1.inst
           /\ r.err = NoError /\ r.val = last'.via /\ r.P = props'
           /\ Cached(s) => (s1.inst = s.inst /\ s1.runs = s.runs)
           /\ last'.ret = (IF Cached(s) THEN s.n ELSE 0) + 1
           /\ s1.n = last'.ret
           /\ C9_Constructed(s1) = 1

C9_Dependencies ==
    /\ [][C9_UseStep]_vars
    /\ []C9_CtorRead(FALSE)

\* D has used S twice through its container, S's counter standing at 2
C9_Witness ==
    /\ last.op = "use"
    /\ last.err = NoError
    /\ has(props[last.c], last.key)
    /\ UseReads(OriginSlot(props, last.c, last.key).dep) # ""
    /\ last.ret = 2
    /\ last.via = OriginSlot(props, last.c,
                             UseReads(OriginSlot(props, last.c, last.key).dep)).inst

\* C9 as it is worded: S is constructed at most once, whatever its constructor
C9_ConstructedAtMostOnce ==
    /\ [][C9_UseStep]_vars
    /\ []C9_CtorRead(TRUE)

(***************************************************************************)
(* C10.  Order independence: for a container and two services with         *)
(* distinct unbound names that do not depend on each other, registering A  *)
(* then B and registering B then A both succeed and leave containers with  *)
(* the same bound names, the same result of every read, and the same       *)
(* outcome of every later inject and injectContainer that involves the     *)
(* container: success, or the same kind of error; the colliding name a     *)
(* failing injectContainer reports is the first in registration order, so  *)
(* it may be A in the one container and B in the other.                    *)
(***************************************************************************)
\* neither class reads the name of the other
Independent(dA, dB) ==
    /\ ServiceName(dA) # ServiceName(dB)
    /\ \A i \in 1..Len(CtorReads(dA)) : CtorReads(dA)[i] # ServiceName(dB)
    /\ \A i \in 1..Len(CtorReads(dB)) : CtorReads(dB)[i] # ServiceName(dA)
    /\ UseReads(dA) # ServiceName(dB)
    /\ UseReads(dB) # ServiceName(dA)

\* the same properties on every container, in whatever order
SameProps(P, Q) ==
    \A k \in AllContainers :
      {P[k][i] : i \in 1..Len(P[k])} = {Q[k][i] : i \in 1..Len(Q[k])}

\* every read gives the same result in P and in Q
ReadsAgree(P, Q) ==
    \A k \in Containers, n \in Names, t \in Classes \cup {NoClass} :
      LET r1 == ReadOp(P, k, n, t)
          r2 == ReadOp(Q, k, n, t)
      IN  r1.val = r2.val /\ r1.err = r2.err /\ SameProps(r1.P, r2.P)

\* P and Q cannot be told apart by the operations of container c; with
\* sameName, a failing injectContainer has to name the same key
Equivalent(P, Q, c, sameName) ==
    /\ \A k \in Containers : KeySet(P[k]) = KeySet(Q[k])
    /\ ReadsAgree(P, Q)
    /\ \A d \in Classes :
         LET r1 == InjectOp(P, c, d)
             r2 == InjectOp(Q, c, d)
         IN  r1.err = r2.err /\ r1.dup = r2.dup /\ SameProps(r1.P, r2.P)
                             /\ ReadsAgree(r1.P, r2.P)
    /\ \A k \in Containers, o \in Containers :
         (c \in {k, o}) =>
           LET r1 == InjectContainerOp(P, k, o)
               r2 == InjectContainerOp(Q, k, o)
           IN  /\ r1.err = r2.err
               /\ sameName => r1.dup = r2.dup
               /\ SameProps(r1.P, r2.P)
               /\ ReadsAgree(r1.P, r2.P)

BothOrders(sameName) ==
    \A c \in Containers, dA \in Classes, dB \in Classes :
      (/\ Independent(dA, dB)
       /\ ~has(props[c], ServiceName(dA))
       /\ ~has(props[c], ServiceName(dB))) =>
         LET a  == InjectOp(props, c, dA)
             ab == InjectOp(a.P, c, dB)
             b  == InjectOp(props, c, dB)
             ba == InjectOp(b.P, c, dA)
         IN  /\ a.err = NoError /\ ab.err = NoError
             /\ b.err = NoError /\ ba.err = NoError
             /\ Equivalent(ab.P, ba.P, c, sameName)

Binding(p) == <<p.key, p.kind, p.dep, p.other>>

\* the service behind name n of container c has been constructed
Resolved(P, c, n) == Cached(OriginSlot(P, c, n))

C11_WellFormed ==
    \A c \in AllContainers :
      /\ \A i \in 1..Len(props[c]), j \in 1..Len(props[c]) :
           props[c][i].key = props[c][j].key => i = j
      /\ \A i \in 1..Len(props[c]) :
           \/ props[c][i].kind = "own" /\ props[c][i].dep # NoClass
           \/ /\ props[c][i].kind = "deleg"
              /\ props[c][i].other \in AllContainers
              /\ has(props[props[c][i].other], props[c][i].key)
              /\ ~Cached(props[c][i])

C11_Step ==
    \A c \in AllContainers :
      /\ Len(props'[c]) >= Len(props[c])
      /\ \A i \in 1..Len(props[c]) :
           /\ Binding(props'[c][i]) = Binding(props[c][i])
           /\ Resolved(props, c, props[c][i].key) =>
                Resolved(props', c, props[c][i].key)

C11_SlotStateMachine == []C11_WellFormed /\ [][C11_Step]_vars

\* an inject of a bound name was rejected on a container that holds a
\* resolved and an unresolved name
C11_Witness ==
    /\ last.op = "inject"
    /\ last.err = "DuplicateServiceName"
    /\ \E i \in 1..Len(props[last.c]), j \in 1..Len(props[last.c]) :
         /\ Resolved(props, last.c, props[last.c][i].key)
         /\ ~Resolved(props, last.c, props[last.c][j].key)

(***************************************************************************)
(* C12.  The unresolved-to-resolved transition, as the code performs it:   *)
(* once a step has left a slot resolved, its instance is never replaced    *)
(* and its constructor never invoked again; the instance is assigned once, *)
(* provided the constructor does not read the slot's own name while it     *)
(* runs.  A constructor that does (a re-entrant read) is entered again by  *)
(* that read: the read yields an instance of its own, which the running    *)
(* constructor's instance replaces when it returns.                        *)
(***************************************************************************)
\* the number of times `instance` was assigned
C12_Assignments(s) == s.runs - s.fails

\* the values the constructor got when it read the slot's own name
C12_OwnReads(s) ==
    {s.deps[k] : k \in {k \in 1..Len(s.deps) : CtorReads(s.dep)[k] = s.key}}

C12_Step(always) ==
    \A c \in AllContainers : \A i \in 1..Len(props[c]) :
      LET s  == props[c][i]
          s1 == props'[c][i]
      IN  s.kind = "own" =>
            /\ Cached(s) => (s1.inst = s.inst /\ s1.runs = s.runs)
            /\ (~Cached(s) /\ Cached(s1)) => last'.op \in {"read", "use"}
            /\ (always \/ ~s1.reent) =>
                 /\ C12_Assignments(s1) <= 1
                 /\ Cached(s1) => C12_OwnReads(s1) \subseteq {s1.inst}
            /\ (s1.reent /\ Cached(s1)) =>
                 /\ C12_Assignments(s1) = 2
                 /\ C12_OwnReads(s1) # {}
                 /\ s1.inst \notin C12_OwnReads(s1)

C12_ResolvedOnce == [][C12_Step(FALSE)]_vars

\* a read has resolved a slot whose constructor read the slot's own name
C12_Witness ==
    /\ last.op = "read"
    /\ last.err = NoError
    /\ \E c \in Containers : \E i \in 1..Len(props[c]) :
         /\ props[c][i].kind = "own"
         /\ props[c][i].reent
         /\ Cached(props[c][i])
         /\ last.val = props[c][i].inst

\* C12 as it is worded: one assignment, the same instance for every read,
\* re-entrant reads included
C12_AtMostOnceReentrant == [][C12_Step(TRUE)]_vars

(***************************************************************************)
(* C13.  What a constructor can read, as the code has it: the constructor  *)
(* receives the container itself, so a read of a sibling name yields the   *)
(* sibling's instance whenever the name is bound at the time of the read,  *)
(* whether it was registered before or after the service, and undefined    *)
(* when it is not bound then.                                              *)
(***************************************************************************)
\* what the constructor of property i of c gets for the k-th name it reads
C13_Expected(c, i, k, earlierOnly) ==
    LET m == CtorReads(props[c][i].dep)[k] IN
    IF /\ has(props[c], m)
       /\ earlierOnly => IndexOf(props[c], m) < i
    THEN OriginSlot(props', c, m).inst
    ELSE Inherited(m)

C13_Step(earlierOnly) ==
    \A c \in AllContainers : \A i \in 1..Len(props[c]) :
      LET s  == props[c][i]
          s1 == props'[c][i]
      IN  (/\ s.kind = "own" /\ ~Cached(s) /\ Cached(s1)
           /\ s.key \notin {CtorReads(s.dep)[k] : k \in 1..Len(CtorReads(s.dep))}) =>
            /\ Len(s1.deps) = Len(CtorReads(s.dep))
            /\ \A k \in 1..Len(s1.deps) :
                 s1.deps[k] = C13_Expected(c, i, k, earlierOnly)

C13_ReadsLiveContainer == [][C13_Step(FALSE)]_vars

\* a constructor has read a sibling that was registered after its service
C13_Witness ==
    /\ last.op = "read"
    /\ last.err = NoError
    /\ \E c \in Containers : \E i \in 1..Len(props[c]) :
         /\ props[c][i].kind = "own"
         /\ Cached(props[c][i])
         /\ Len(props[c][i].deps) = 1
         /\ IndexOf(props[c], CtorReads(props[c][i].dep)[1]) > i
         /\ props[c][i].deps[1] # Undefined
         /\ props[c][i].deps[1] =
              OriginSlot(props, c, CtorReads(props[c][i].dep)[1]).inst

\* C13 as it is worded: names registered after the service are absent for
\* its constructor
C13_LaterSlotsHidden == [][C13_Step(TRUE)]_vars

(***************************************************************************)
(* C14.  Every read of a bound name ends within the step that issues it:   *)
(* it returns the instance the name resolves to, or fails with an error    *)
(* and returns nothing.  A cycle of construction-time reads (two services  *)
(* whose constructors read each other) ends with the error of the          *)
(* exhausted call stack and leaves both names unresolved.                  *)
(***************************************************************************)
\* the outcome r of a read of c[n] in P is an instance or an error
C14_Completes(P, c, n, r) ==
    \/ /\ r.err = NoError
       /\ r.val # Undefined
       /\ r.val = OriginSlot(r.P, c, n).inst
    \/ /\ r.err \in {"CtorError", "RangeError"}
       /\ r.val = Undefined
       /\ ~Resolved(r.P, c, n)

\* the unresolved services behind c[n] and c[m] read each other
C14_Cycle(P, c, n) ==
    LET o == Origin(P, c, n)[1]
        s == OriginSlot(P, c, n)
    IN  /\ ~Cached(s)
        /\ ~GuardsReentry(s.dep)
        /\ \E k \in 1..Len(CtorReads(s.dep)) :
             LET m == CtorReads(s.dep)[k] IN
             /\ has(P[o], m)
             /\ ~Resolved(P, o, m)
             /\ ~GuardsReentry(OriginSlot(P, o, m).dep)
             /\ Origin(P, o, m)[1] = o
             /\ n \in {CtorReads(OriginSlot(P, o, m).dep)[j] :
                         j \in 1..Len(CtorReads(OriginSlot(P, o, m).dep))}
             /\ \A j \in 1..(k - 1) :
                  has(P[o], CtorReads(s.dep)[j]) =>
                    Resolved(P, o, CtorReads(s.dep)[j])

C14_EveryRead ==
    \A c \in Containers, n \in Names :
      has(props[c], n) =>
        /\ C14_Completes(props, c, n, ReadOp(props, c, n, NoClass))
        /\ C14_Cycle(props, c, n) =>
             ReadOp(props, c, n, NoClass).err = "RangeError"

C14_ReadStep ==
    (last'.op = "read" /\ has(props[last'.c], last'.key)) =>
       C14_Completes(props, last'.c, last'.key,
                     [P |-> props', val |-> last'.val, err |-> last'.err])

C14_ReadsComplete == []C14_EveryRead /\ [][C14_ReadStep]_vars

\* a read of a service in a cycle of construction-time reads has failed
C14_Witness ==
    /\ last.op = "read"
    /\ last.err = "RangeError"
    /\ has(props[last.c], last.key)
    /\ C14_Cycle(props, last.c, last.key)

(***************************************************************************)
(* C15.  Reading a name that is bound in no way on a container (no         *)
(* property defined by inject or injectContainer, no member inherited      *)
(* from the prototype) is not an error: it yields undefined, invokes no    *)
(* constructor and changes no container; the name can be registered        *)
(* afterwards.  (An inherited member is what a read of its name yields.)   *)
(***************************************************************************)
C15_ReadStep ==
    (last'.op = "read" /\ ~has(props[last'.c], last'.key)) =>
       /\ last'.err = NoError
       /\ last'.val = Inherited(last'.key)
       /\ last'.key \notin PrototypeNames => last'.val = Undefined
       /\ props' = props
       /\ \A d \in Classes \cup ReservedClasses :
            ServiceName(d) = last'.key =>
              LET r == InjectOp(props', last'.c, d) IN
              /\ r.err = NoError
              /\ has(r.P[last'.c], last'.key)

C15_UnboundReadIsAbsent == [][C15_ReadStep]_vars

\* an unbound name was read on a container that holds a resolved service
C15_Witness ==
    /\ last.op = "read"
    /\ last.err = NoError
    /\ last.val = Undefined
    /\ last.key \notin PrototypeNames
    /\ ~has(props[last.c], last.key)
    /\ \E i \in 1..Len(props[last.c]) : Cached(props[last.c][i])

(***************************************************************************)
(* C16.  After any sequence of inject calls that return without error the  *)
(* operations inject and injectContainer are what the container yields     *)
(* under their names, and an inject of a service named "inject" or         *)
(* "injectContainer" is rejected at run time.                              *)
(***************************************************************************)
C16_OperationsReachable ==
    \A c \in Containers : \A n \in PrototypeNames :
      /\ ~has(props[c], n)
      /\ ReadOp(props, c, n, NoClass).val = Inherited(n)

C16_RejectStep ==
    (last'.op = "inject" /\ last'.key \in PrototypeNames) =>
       (last'.err # NoError /\ props' = props)

C16_ReservedNamesRejected ==
    []C16_OperationsReachable /\ [][C16_RejectStep]_vars

(***************************************************************************)
(* C17.  A service read through a delegating property of Y is constructed  *)
(* by the getter of the container X it was registered on, with X: its      *)
(* constructor gets the instances of the names bound in X, and undefined   *)
(* for a name that is bound in Y only.                                     *)
(***************************************************************************)
\* the read r of c[n] constructed the service of X = Origin(P, c, n) with X
C17_BuiltWithSource(P, c, n, r) ==
    LET x  == Origin(P, c, n)[1]
        s  == OriginSlot(P, c, n)
        s1 == OriginSlot(r.P, c, n)
    IN  (r.err = NoError /\ ~Cached(s) /\ x # c) =>
          /\ r.val = <<x, n, s1.runs - (IF s1.reent THEN 1 ELSE 0)>>
          /\ Cached(s1) /\ s1.inst = r.val
          /\ OriginSlot(r.P, c, n) = Slot(r.P, x, n)
          /\ \A k \in 1..Len(s1.deps) :
               LET m == CtorReads(s.dep)[k] IN
               m # n =>
                 s1.deps[k] = (IF has(P[x], m) THEN OriginSlot(r.P, x, m).inst
                               ELSE Inherited(m))

C17_MergeStep ==
    (last'.op = "injectContainer" /\ last'.err = NoError) =>
       \A n \in KeySet(props[last'.other]) :
         /\ Origin(props', last'.c, n) = Origin(props, last'.other, n)
         /\ C17_BuiltWithSource(props', last'.c, n,
                                ReadOp(props', last'.c, n, NoClass))

C17_ReadStep ==
    (last'.op = "read" /\ has(props[last'.c], last'.key)) =>
       C17_BuiltWithSource(props, last'.c, last'.key,
                           [P |-> props', val |-> last'.val, err |-> last'.err])

C17_ConstructedWithSource == [][C17_MergeStep /\ C17_ReadStep]_vars

\* a read on Y constructed a service of X whose constructor reads a name
\* that Y has and X has not: it got undefined
C17_Witness ==
    /\ last.op = "read"
    /\ last.err = NoError
    /\ has(props[last.c], last.key)
    /\ Slot(props, last.c, last.key).kind = "deleg"
    /\ LET s == OriginSlot(props, last.c, last.key)
           x == Origin(props, last.c, last.key)[1]
       IN  /\ Cached(s) /\ s.inst = last.val
           /\ s.deps = <<Undefined>>
           /\ has(props[last.c], CtorReads(s.dep)[1])
           /\ ~has(props[x], CtorReads(s.dep)[1])

(***************************************************************************)
(* C18.  injectContainer(X) on Y binds in Y exactly the names bound in X   *)
(* at the time of the call: a name registered on X later is not bound in   *)
(* Y, Y can register that name itself without error, and the two           *)
(* containers then resolve the name to different instances.                *)
(***************************************************************************)
C18_Step ==
    /\ (last'.op = "injectContainer" /\ last'.err = NoError) =>
         KeySet(props'[last'.c]) =
           KeySet(props[last'.c]) \cup KeySet(props[last'.other])
    /\ last'.op = "inject" =>
         \A k \in AllContainers \ {last'.c} : props'[k] = props[k]

\* Y merged X earlier; the names of X that Y has not were registered since
C18_LaterNames ==
    \A y \in Containers, x \in Containers :
      (x # y /\ \E i \in 1..Len(props[y]) :
                  props[y][i].kind = "deleg" /\ props[y][i].other = x) =>
        \A d \in Classes :
          (has(props[x], ServiceName(d)) /\ ~has(props[y], ServiceName(d))) =>
            LET n  == ServiceName(d)
                r  == InjectOp(props, y, d)
                r1 == ReadOp(r.P, y, n, NoClass)
                r2 == ReadOp(r1.P, x, n, NoClass)
            IN  /\ ReadOp(props, y, n, NoClass).val = Undefined
                /\ r.err = NoError
                /\ Slot(r.P, y, n).kind = "own"
                /\ (r1.err = NoError /\ r2.err = NoError) =>
                     /\ r1.val # r2.val
                     /\ r1.val[1] = y
                     /\ r2.val[1] = Origin(props, x, n)[1]

C18_MergeBindsNamesAtCall == []C18_LaterNames /\ [][C18_Step]_vars

\* X registered a name after Y had merged X
C18_Witness ==
    /\ last.op = "inject"
    /\ last.err = NoError
    /\ \E y \in Containers \ {last.c} :
         /\ \E i \in 1..Len(props[y]) :
              props[y][i].kind = "deleg" /\ props[y][i].other = last.c
         /\ ~has(props[y], last.key)
         /\ has(props[last.c], last.key)

====
